---- MODULE Spec2Model ----
(***************************************************************************)
(* Model of the Document_Word_List container (src/src/Document_Word_List.c) *)
(* and of its intersection operation.                                      *)
(*                                                                         *)
(* Heap objects are kept at addresses: a Document_Word_List is referred to *)
(* by a handle, its inner arrays by row addresses in `mem`, so that two    *)
(* containers sharing storage is something the model can express.          *)
(* The loops of Intersect_Data_With_Document_Word_List are stepped through *)
(* by `pc` (the position in the function), one action per loop body.       *)
(***************************************************************************)
EXTENDS Integers, Sequences, FiniteSets

\* ---------------------------------------------------------------- bounds
MaxArrays == 2      \* largest number_of_arrays handed to Create
MaxLen == 2         \* largest max_array_length handed to Create
MaxCells == 2       \* tokens copied by Append in one run of the program

\* Token values that occur in appended data and in queries: one below the
\* guard's first size, one equal to it, one more than two steps above it.
Tokens == {1, 1000, 3500}

\* The two lists of a run of the program: the one the caller created and
\* fills, and the one an intersection returned.
Handles == {"object", "intersection_result"}
Addrs == 1 .. (2 * MaxArrays)

\* ------------------------------------------------------ program constants
multiple_guard_realloc_step == 1000

\* A pointer that refers to no Document_Word_List: the result before an
\* intersection has returned one, and the caller's pointer to a list it has
\* deleted.
NULL ==
  [number_of_arrays |-> 0, max_array_length |-> 0, next_free_array |-> 0,
   intersection_data |-> FALSE, arrays_lengths |-> << >>, data |-> << >>]

\* An address of `mem` that is not allocated.
FreeBlock == << >>

\* Sequences over S of length lo..hi
SeqsOf(S, lo, hi) == UNION {[1 .. n -> S] : n \in lo .. hi}

\* The arrays handed to Append and to Intersect: every array of up to MaxLen
\* tokens (the empty one too), and one that is longer than any list allows.
Inputs == SeqsOf(Tokens, 0, MaxLen) \cup {[c \in 1 .. MaxLen + 1 |-> 1]}

VARIABLES
  lists,                \* handle -> struct Document_Word_List (or NULL)
  mem,                  \* row address -> uint_fast32_t [max_array_length]
  assert_msg,           \* message of the assertion that failed, or "none"
  copied,               \* number of tokens Append has copied so far
  pc,                   \* position: "idle", a place inside Intersect_Data_...,
                        \* "abort" (an assertion failed), "undefined"
  data,                 \* Intersect: the query
  size_multiple_guard,  \* Intersect: number of entries of multiple_guard
  multiple_guard,       \* Intersect: the byte at multiple_guard + v, per token v
  i, i2, i3             \* Intersect: loop counters (0-based, as in the code)

vars ==
  << lists, mem, assert_msg, copied, pc, data,
     size_multiple_guard, multiple_guard, i, i2, i3 >>

intersectVars ==
  << data, size_multiple_guard, multiple_guard, i, i2, i3 >>

\* ------------------------------------------------------------ allocation
\* The k-th lowest free row address of memory m.
KthFree(m, k) ==
  CHOOSE a \in Addrs :
    /\ m[a] = FreeBlock
    /\ Cardinality({b \in Addrs : m[b] = FreeBlock /\ b < a}) = k - 1

\* AllocRows with a fault injected: the rows are not fresh, the first
\* addresses are handed out again, whoever holds them.
AllocRows_Shared(m, number_of_arrays) ==
  [k \in 1 .. number_of_arrays |-> k]

\* CALLOC of the inner arrays: fresh addresses, each row zeroed.
AllocRows(m, number_of_arrays) ==
  [k \in 1 .. number_of_arrays |-> KthFree(m, k)]

\* Create_Document_Word_List: the new object and the memory after it.
Create_Document_Word_List(m, number_of_arrays, max_array_length) ==
  LET rows == AllocRows(m, number_of_arrays)
      used == {rows[k] : k \in 1 .. number_of_arrays}
  IN [obj |->
        [number_of_arrays |-> number_of_arrays,
         max_array_length |-> max_array_length,
         next_free_array |-> 0,
         intersection_data |-> FALSE,
         arrays_lengths |-> [k \in 1 .. number_of_arrays |-> 0],
         data |-> rows],
      mem |->
        [a \in Addrs |->
           IF a \in used THEN [c \in 1 .. max_array_length |-> 0] ELSE m[a]]]

\* The state of the Intersect locals outside of a call.
NoGuard == [v \in Tokens |-> "false"]

Init ==
  \E number_of_arrays \in 1 .. MaxArrays, max_array_length \in 1 .. MaxLen :
    LET c == Create_Document_Word_List([a \in Addrs |-> FreeBlock],
                                       number_of_arrays, max_array_length)
    IN /\ lists = [h \in Handles |-> IF h = "object" THEN c.obj ELSE NULL]
       /\ mem = c.mem
       /\ assert_msg = "none"
       /\ copied = 0
       /\ pc = "idle"
       /\ data = << >>
       /\ size_multiple_guard = 0
       /\ multiple_guard = NoGuard
       /\ i = 0 /\ i2 = 0 /\ i3 = 0

\* ---------------------------------------------------------------- Delete
Delete_Document_Word_List(h) ==
  /\ pc = "idle"
  /\ IF lists[h] = NULL
     THEN /\ assert_msg' = "Object is NULL !"
          /\ pc' = "abort"
          /\ UNCHANGED << lists, mem >>
     ELSE LET o == lists[h]
              rows == {o.data[k] : k \in 1 .. o.number_of_arrays}
          IN /\ mem' = [a \in Addrs |-> IF a \in rows THEN FreeBlock ELSE mem[a]]
             /\ lists' = [lists EXCEPT ![h] = NULL]
             /\ UNCHANGED << assert_msg, pc >>
  /\ UNCHANGED << copied, intersectVars >>

\* ---------------------------------------------------------------- Append
\* AppendAssert with a fault injected: the test for a free array comes before
\* the test of the length.
AppendAssert_FullFirst(o, new_data) ==
  IF o = NULL THEN "Object is NULL !"
  ELSE IF Len(new_data) = 0 THEN "New data length is 0 !"
  ELSE IF ~ (o.number_of_arrays > o.next_free_array) THEN "All arrays are in use !"
  ELSE IF ~ (Len(new_data) <= o.max_array_length) THEN "New data is too large !"
  ELSE "none"

\* The assertions of Append_Data_To_Document_Word_List, in their order: the
\* message of the first one that fails, or "none".
AppendAssert(o, new_data) ==
  IF o = NULL THEN "Object is NULL !"
  ELSE IF Len(new_data) = 0 THEN "New data length is 0 !"
  ELSE IF ~ (Len(new_data) <= o.max_array_length) THEN "New data is too large !"
  ELSE IF ~ (o.number_of_arrays > o.next_free_array) THEN "All arrays are in use !"
  ELSE "none"

\* memcpy (row, new_data, sizeof (uint_fast32_t) * data_length)
Memcpy(row, new_data) ==
  [c \in 1 .. Len(row) |-> IF c <= Len(new_data) THEN new_data[c] ELSE row[c]]

Append_Data_To_Document_Word_List(h, new_data) ==
  /\ pc = "idle"
  /\ LET o == lists[h]
         msg == AppendAssert(o, new_data)
     IN IF msg # "none"
        THEN /\ assert_msg' = msg
             /\ pc' = "abort"
             /\ UNCHANGED << lists, mem, copied >>
        ELSE /\ copied + Len(new_data) <= MaxCells
             /\ mem' = [mem EXCEPT ![o.data[o.next_free_array + 1]] =
                                      Memcpy(@, new_data)]
             /\ lists' = [lists EXCEPT ![h] =
                            [o EXCEPT !.arrays_lengths[o.next_free_array + 1] =
                                          Len(new_data),
                                      !.next_free_array = @ + 1]]
             /\ copied' = copied + Len(new_data)
             /\ UNCHANGED << assert_msg, pc >>
  /\ UNCHANGED intersectVars

\* ------------------------------------------------------------- Intersect
Modes == {"INTERSECTION_MODE_DEFAULTS", "INTERSECTION_MODE_OTHER"}

\* IntersectAssert with a fault injected: an empty query is let through.
IntersectAssert_NoLengthTest(o, query, mode) ==
  IF o = NULL THEN "Object is NULL !"
  ELSE IF mode # "INTERSECTION_MODE_DEFAULTS" THEN "Invalid intersection mode !"
  ELSE IF ~ (Len(query) <= o.max_array_length) THEN "data is too large !"
  ELSE "none"

\* The assertions at the head of Intersect_Data_With_Document_Word_List, in
\* their order: the message of the first one that fails, or "none".
IntersectAssert(o, query, mode) ==
  IF o = NULL THEN "Object is NULL !"
  ELSE IF Len(query) = 0 THEN "data length is 0 !"
  ELSE IF mode # "INTERSECTION_MODE_DEFAULTS" THEN "Invalid intersection mode !"
  ELSE IF ~ (Len(query) <= o.max_array_length) THEN "data is too large !"
  ELSE "none"

\* The guard's memory is followed per token value v: the byte at
\* multiple_guard + v. It is "false" or "true" once written or read, and
\* "indeterminate" while it is memory the program has not initialised (bytes
\* past the end of the block, and bytes REALLOC added).

\* CALLOC (size, sizeof (_Bool)): the block is zeroed, what lies behind it is not.
CallocGuard(size) ==
  [v \in Tokens |-> IF v < size THEN "false" ELSE "indeterminate"]

\* memset (multiple_guard, '\0', size): clears the block, nothing behind it.
MemsetGuard(guard, size) ==
  [v \in Tokens |-> IF v < size THEN "false" ELSE guard[v]]

\* REALLOC from old_size entries: the old entries are kept, the added ones are
\* not initialised, and the block may have moved.
ReallocGuard(guard, old_size) ==
  [v \in Tokens |-> IF v < old_size THEN guard[v] ELSE "indeterminate"]

\* The size of the guard after the "Reicht der Speicher aus ?" test for value v.
GrownSize(size, v) ==
  IF v > size THEN size + multiple_guard_realloc_step ELSE size

\* ResultHeader with a fault injected: the cursor of the input is not taken
\* over.
ResultHeader_NoCursor(created, o) ==
  [created EXCEPT !.intersection_data = TRUE]

\* The fields the result gets after its creation.
ResultHeader(created, o) ==
  [created EXCEPT !.next_free_array = o.next_free_array,
                  !.intersection_data = TRUE]

\* Entry: the assertions, the creation of the result and of the guard.
Intersect_Call(query, mode) ==
  /\ pc = "idle"
  /\ LET o == lists["object"]
         msg == IntersectAssert(o, query, mode)
     IN IF msg # "none"
        THEN /\ assert_msg' = msg
             /\ pc' = "abort"
             /\ UNCHANGED << lists, mem, intersectVars >>
        ELSE /\ lists["intersection_result"] = NULL
             /\ LET c == Create_Document_Word_List(mem, o.number_of_arrays,
                                                   o.max_array_length)
                IN /\ lists' = [lists EXCEPT !["intersection_result"] =
                                                ResultHeader(c.obj, o)]
                   /\ mem' = c.mem
             /\ UNCHANGED assert_msg
             /\ data' = query
             /\ size_multiple_guard' = multiple_guard_realloc_step
             /\ multiple_guard' = CallocGuard(multiple_guard_realloc_step)
             /\ i' = 0 /\ i2' = 0 /\ i3' = 0
             /\ pc' = "outer"
  /\ UNCHANGED copied

\* for (i ...): the loop test, the memset and the entry into the i2 loop.
Intersect_OuterLoop ==
  /\ pc = "outer"
  /\ LET o == lists["object"]
     IN IF i < o.number_of_arrays
        THEN /\ multiple_guard' = MemsetGuard(multiple_guard, size_multiple_guard)
             /\ IF o.arrays_lengths[i + 1] = 0 \/ Len(data) = 0
                THEN /\ i' = i + 1
                     /\ pc' = "outer"
                ELSE /\ i' = i
                     /\ pc' = "inner"
        ELSE /\ pc' = "return"
             /\ UNCHANGED << multiple_guard, i >>
  /\ UNCHANGED << lists, mem, assert_msg, copied, data, size_multiple_guard, i2, i3 >>

\* ++ i3, and the loops around it: where the function stands after the body
\* at (i, i2, i3).
NextPos(o) ==
  IF i3 + 1 < Len(data)
  THEN [pc |-> "inner", i |-> i, i2 |-> i2, i3 |-> i3 + 1]
  ELSE IF i2 + 1 < o.arrays_lengths[i + 1]
       THEN [pc |-> "inner", i |-> i, i2 |-> i2 + 1, i3 |-> 0]
       ELSE [pc |-> "outer", i |-> i + 1, i2 |-> 0, i3 |-> 0]

Advance(o) ==
  /\ pc' = NextPos(o).pc
  /\ i' = NextPos(o).i
  /\ i2' = NextPos(o).i2
  /\ i3' = NextPos(o).i3

\* Body of the i3 loop up to the guard test: the comparison and the growth of
\* the guard. The byte that the guard test will read is looked at here: an
\* indeterminate byte holds one of the two values.
Intersect_Compare ==
  /\ pc = "inner"
  /\ LET o == lists["object"]
         v == data[i3 + 1]
     IN IF mem[o.data[i + 1]][i2 + 1] = v
        THEN LET grown == GrownSize(size_multiple_guard, v)
                 guard == IF grown # size_multiple_guard
                          THEN ReallocGuard(multiple_guard, size_multiple_guard)
                          ELSE multiple_guard
             IN /\ size_multiple_guard' = grown
                /\ \E byte \in (IF guard[v] = "indeterminate"
                                THEN {"false", "true"} ELSE {guard[v]}) :
                     multiple_guard' = [guard EXCEPT ![v] = byte]
                /\ pc' = "guard"
                /\ UNCHANGED << i, i2, i3 >>
        ELSE /\ Advance(o)
             /\ UNCHANGED << size_multiple_guard, multiple_guard >>
  /\ UNCHANGED << lists, mem, assert_msg, copied, data >>

\* if (multiple_guard [data [i3]] == false) { ... }, then ++ i3.
\* A store behind the end of the result's row is undefined behaviour: the
\* length is counted up, the row keeps its cells, and the function is followed
\* no further.
Intersect_GuardTest ==
  /\ pc = "guard"
  /\ LET o == lists["object"]
         r == lists["intersection_result"]
         v == data[i3 + 1]
         len == r.arrays_lengths[i + 1]
     IN IF multiple_guard[v] = "false"
        THEN /\ lists' = [lists EXCEPT
                            !["intersection_result"].arrays_lengths[i + 1] = len + 1]
             /\ multiple_guard' = [multiple_guard EXCEPT ![v] = "true"]
             /\ IF len < r.max_array_length
                THEN /\ mem' = [mem EXCEPT ![r.data[i + 1]][len + 1] = v]
                     /\ Advance(o)
                ELSE /\ pc' = "undefined"
                     /\ UNCHANGED << mem, i, i2, i3 >>
        ELSE /\ Advance(o)
             /\ UNCHANGED << lists, mem, multiple_guard >>
  /\ UNCHANGED << assert_msg, copied, data, size_multiple_guard >>

\* printf, FREE_AND_SET_TO_NULL (multiple_guard), return intersection_result.
Intersect_Return ==
  /\ pc = "return"
  /\ pc' = "idle"
  /\ data' = << >>
  /\ size_multiple_guard' = 0
  /\ multiple_guard' = NoGuard
  /\ i' = 0 /\ i2' = 0 /\ i3' = 0
  /\ UNCHANGED << lists, mem, assert_msg, copied >>

Next ==
  \/ \E h \in Handles : Delete_Document_Word_List(h)
  \/ \E h \in Handles, new_data \in Inputs :
       Append_Data_To_Document_Word_List(h, new_data)
  \/ \E query \in Inputs, mode \in Modes : Intersect_Call(query, mode)
  \/ Intersect_OuterLoop
  \/ Intersect_Compare
  \/ Intersect_GuardTest
  \/ Intersect_Return

Spec == Init /\ [][Next]_vars
\* ------------------------------------------------------------------------
\* Vocabulary of the properties
\* ------------------------------------------------------------------------
\* The values in slot k (1-based) of list h: data [k][0 .. arrays_lengths [k]).
SlotValues(h, k) ==
  {mem[lists[h].data[k]][c] : c \in 1 .. lists[h].arrays_lengths[k]}

\* The values of the query of the running intersection.
QueryValues == {data[c] : c \in 1 .. Len(data)}

\* Slot numbers of list h.
Slots(h) == 1 .. lists[h].number_of_arrays

\* A list as its owner sees it: its fields and the contents of its rows.
View(h) ==
  [list |-> lists[h],
   rows |-> [k \in 1 .. lists[h].number_of_arrays |-> mem[lists[h].data[k]]]]

\* The row addresses list h owns.
RowsOf(h) == {lists[h].data[k] : k \in 1 .. lists[h].number_of_arrays}

\* The positions inside Intersect_Data_With_Document_Word_List.
InIntersect == pc \in {"outer", "inner", "guard", "return", "undefined"}

\* ------------------------------------------------------------------------
\* C1: when the intersection returns, every result slot holds, as a set,
\* exactly the values that are both in the input's slot and in the query,
\* for every token value (those of 1000 and more too).
C1_SetCorrectness ==
  pc = "return" =>
    \A k \in Slots("object") :
      SlotValues("intersection_result", k) =
        SlotValues("object", k) \cap QueryValues

\* C2: when the intersection returns, no value is twice in one result slot.
C2_NoDuplicates ==
  pc = "return" =>
    \A k \in Slots("intersection_result") :
      LET r == lists["intersection_result"]
      IN \A c1, c2 \in 1 .. r.arrays_lengths[k] :
           c1 # c2 => mem[r.data[k]][c1] # mem[r.data[k]][c2]

\* C5: every list satisfies 0 <= next_free_array <= number_of_arrays,
\* arrays_lengths [k] <= max_array_length for every slot, and
\* arrays_lengths [k] = 0 for every slot at or behind next_free_array.
C5_ContainerInvariant ==
  \A h \in Handles :
    lists[h] # NULL =>
      LET o == lists[h]
      IN /\ 0 <= o.next_free_array
         /\ o.next_free_array <= o.number_of_arrays
         /\ \A k \in 1 .. o.number_of_arrays :
              /\ o.arrays_lengths[k] <= o.max_array_length
              /\ k > o.next_free_array => o.arrays_lengths[k] = 0

\* C9: the guard is read and written at data [i3] only with data [i3] below
\* the guard's current number of entries.
C9_GuardAccessInBounds ==
  pc = "guard" => data[i3 + 1] < size_multiple_guard

\* C10: at the guard test the guard reports data [i3] as seen exactly if the
\* value was marked before in the pass over the same subset, that is, exactly
\* if the pass has put it into the result slot already.
C10_SeenIffMarkedInThisPass ==
  pc = "guard" =>
    (multiple_guard[data[i3 + 1]] = "true"
       <=> data[i3 + 1] \in SlotValues("intersection_result", i + 1))
\* ------------------------------------------------------------------------
\* The two sorting strategies (IntersectionApproach_QSortAndBinarySearch and
\* IntersectionApproach_HeapSortAndBinarySearch are declared in
\* Intersection_Approaches.h; their bodies follow the design: sort the subset
\* ascending, binary search every query element in it, and put a hit into the
\* result the first time the guard has not seen it).

Range(s) == {s[c] : c \in 1 .. Len(s)}

\* Quicksort, the first element as the pivot.
RECURSIVE QSort(_)
QSort(s) ==
  IF Len(s) <= 1 THEN s
  ELSE LET rest == SubSeq(s, 2, Len(s))
           IsLow(x) == x < s[1]
           IsHigh(x) == ~ (x < s[1])
       IN QSort(SelectSeq(rest, IsLow)) \o << s[1] >> \o
          QSort(SelectSeq(rest, IsHigh))

Swap(s, a, b) == [s EXCEPT ![a] = s[b], ![b] = s[a]]

\* Repair the max-heap s[1 .. end] at position root.
RECURSIVE SiftDown(_, _, _)
SiftDown(s, root, end) ==
  LET left == 2 * root
      right == 2 * root + 1
      big1 == IF left <= end /\ s[left] > s[root] THEN left ELSE root
      big == IF right <= end /\ s[right] > s[big1] THEN right ELSE big1
  IN IF big = root THEN s ELSE SiftDown(Swap(s, root, big), big, end)

RECURSIVE BuildHeap(_, _)
BuildHeap(s, start) ==
  IF start < 1 THEN s ELSE BuildHeap(SiftDown(s, start, Len(s)), start - 1)

RECURSIVE SortDown(_, _)
SortDown(s, end) ==
  IF end <= 1 THEN s
  ELSE SortDown(SiftDown(Swap(s, 1, end), 1, end - 1), end - 1)

\* Heapsort.
HeapSort(s) == SortDown(BuildHeap(s, Len(s) \div 2), Len(s))

\* Binary search of v in the ascending s[lo .. hi].
RECURSIVE BinarySearch(_, _, _, _)
BinarySearch(s, v, lo, hi) ==
  IF lo > hi THEN FALSE
  ELSE LET mid == (lo + hi) \div 2
       IN IF s[mid] = v THEN TRUE
          ELSE IF s[mid] < v THEN BinarySearch(s, v, mid + 1, hi)
          ELSE BinarySearch(s, v, lo, mid - 1)

\* The scan of the query from its k-th element on; seen is the guard set of
\* the subset's pass, out the result slot so far.
RECURSIVE ScanQuery(_, _, _, _, _)
ScanQuery(sorted, query, k, seen, out) ==
  IF k > Len(query) THEN out
  ELSE LET v == query[k]
       IN IF BinarySearch(sorted, v, 1, Len(sorted)) /\ v \notin seen
          THEN ScanQuery(sorted, query, k + 1, seen \cup {v}, Append(out, v))
          ELSE ScanQuery(sorted, query, k + 1, seen, out)

\* The result slot each sorting strategy computes for a subset and a query.
QSortAndBinarySearch(subset, query) ==
  ScanQuery(QSort(subset), query, 1, {}, << >>)

HeapSortAndBinarySearch(subset, query) ==
  ScanQuery(HeapSort(subset), query, 1, {}, << >>)

\* The used part of slot k of list h.
Subset(h, k) == SubSeq(mem[lists[h].data[k]], 1, lists[h].arrays_lengths[k])

\* C3: when the nested-loops intersection returns, every result slot holds the
\* same set of values as the slot the quicksort strategy and the slot the
\* heapsort strategy compute for the same list and query.
C3_StrategiesAgree ==
  pc = "return" =>
    \A k \in Slots("object") :
      /\ SlotValues("intersection_result", k) =
           Range(QSortAndBinarySearch(Subset("object", k), data))
      /\ SlotValues("intersection_result", k) =
           Range(HeapSortAndBinarySearch(Subset("object", k), data))

\* ------------------------------------------------------------------------
\* C4: an Append with more data than max_array_length fails ("New data is too
\* large !"), an Append to a list whose arrays are all in use fails ("All
\* arrays are in use !" when the data itself is acceptable), and a failed
\* Append changes no row, no recorded length and not the cursor.
C4_AppendRejectedUnchanged ==
  [][pc = "idle" =>
       \A h \in Handles :
         lists[h] # NULL =>
           LET o == lists[h]
               tooLarge(new_data) == Len(new_data) > o.max_array_length
               full == o.next_free_array = o.number_of_arrays
           IN \A new_data \in Inputs :
                (tooLarge(new_data) \/ full) =>
                  (Append_Data_To_Document_Word_List(h, new_data) =>
                     /\ pc' = "abort"
                     /\ lists' = lists
                     /\ mem' = mem
                     /\ tooLarge(new_data) =>
                          assert_msg' = "New data is too large !"
                     /\ Len(new_data) \in 1 .. o.max_array_length =>
                          assert_msg' = "All arrays are in use !")]_vars

\* C4 (witness): the Append after the last free array was filled has failed.
C4_Witness ==
  /\ pc = "abort"
  /\ assert_msg = "All arrays are in use !"
  /\ lists["object"].next_free_array = lists["object"].number_of_arrays
  /\ lists["object"].number_of_arrays = MaxArrays

\* C6: the list an intersection returns has the input's number_of_arrays,
\* max_array_length and next_free_array, and is marked as intersection data.
C6_ResultShape ==
  pc = "return" =>
    LET o == lists["object"]
        r == lists["intersection_result"]
    IN /\ r.number_of_arrays = o.number_of_arrays
       /\ r.max_array_length = o.max_array_length
       /\ r.next_free_array = o.next_free_array
       /\ r.intersection_data = TRUE

\* C6 (witness): an intersection over a list with two used arrays returns,
\* with a value in its result.
C6_Witness ==
  /\ pc = "return"
  /\ lists["object"].next_free_array = 2
  /\ \E k \in Slots("intersection_result") :
       lists["intersection_result"].arrays_lengths[k] > 0

\* C7: no step of an intersection changes the input list (fields, lengths,
\* rows); the input and the result own different rows; a call of the caller
\* (an Append, a Delete) that changes one of the two lists leaves the other as
\* it was.
C7_InputUntouchedNoSharing ==
  [][/\ (pc # "idle" \/ pc' = "outer") => View("object")' = View("object")
     /\ (lists'["object"] # NULL /\ lists'["intersection_result"] # NULL) =>
          (RowsOf("object") \cap RowsOf("intersection_result"))' = {}
     /\ (pc = "idle" /\ pc' # "outer") =>
          \/ View("object")' = View("object")
          \/ View("intersection_result")' = View("intersection_result")]_vars

\* C7 (witness): after an intersection that found a value, the input was
\* appended to and the result is as the intersection left it.
C7_Witness ==
  /\ pc = "idle"
  /\ lists["object"] # NULL
  /\ lists["intersection_result"] # NULL
  /\ lists["object"].next_free_array >
       lists["intersection_result"].next_free_array
  /\ \E k \in Slots("intersection_result") :
       lists["intersection_result"].arrays_lengths[k] > 0

====
